---- MODULE Spec2Model ----
(***************************************************************************)
(* Model of transcriptor-app: the batch pipeline executor                  *)
(* (core/pipeline.py, run_pipeline) and the background job layer of the    *)
(* web interface (interfaces/web/processing.py, interfaces/web/main.py).   *)
(*                                                                         *)
(* The specifications share the variables:                                 *)
(*   PipelineSpec   one direct call of run_pipeline over a batch           *)
(*   TranscribeSpec run_pipeline on one URL, over the transcription        *)
(*                  options a configuration can carry                      *)
(*   Spec           the job store, its endpoints and the worker threads    *)
(*   CallbackSpec   the worker's update_status closure applied to a record *)
(*   CliSpec        main() of the command line                             *)
(*   LeafSpec       one call of a leaf collaborator (fetcher, transcriber, *)
(*                  formatters) on the inputs its code distinguishes       *)
(***************************************************************************)
EXTENDS Integers, Sequences, FiniteSets, TLC

\* ------------------------------------------------------------------------
\* Bounds of the model
\* ------------------------------------------------------------------------
MaxUrls == 3

MaxFormats == 2

Urls == {"u1", "u2"}

\* "txt" and "srt" are the two formats run_pipeline dispatches on; "vtt"
\* stands for any other requested name (no formatter is called for it).
FormatNames == {"txt", "srt", "vtt"}

None == "None"

\* None where a path is expected.
NoPath == <<>>

Range(s) == {s[i] : i \in 1..Len(s)}

SeqsUpTo(S, n) == UNION {[1..k -> S] : k \in 0..n}

\* ------------------------------------------------------------------------
\* State
\* ------------------------------------------------------------------------
VARIABLES
    \* --- run_pipeline (core/pipeline.py) ---
    urls_to_process,        \* the batch, a sequence of URLs
    config,                 \* the configuration dict: formats, keep_audio and
                            \* the transcription options it carries
    index,                  \* 1-based position of the URL being processed
    pipeline_pc,            \* position inside the loop body
    audio_path,             \* asset returned by the fetcher, or None
    transcript_result,      \* what the transcription client returned, or None
    base_filename,          \* stem of the transcript files of this URL
    fmt_index,              \* position in requested_formats
    format_success_count,
    url_success,
    processed_urls_count,
    failed_urls_list,
    audio_files,            \* assets present in audio_output_dir
    audio_dir_exists,
    audio_dir_foreign,      \* audio_output_dir holds files that are not
                            \* assets of this run
    output_files,           \* transcript files present in output_dir
    \* history of the run (not program state)
    fetch_log,              \* URLs handed to the fetcher, in call order
    processed_at,           \* positions that incremented processed_urls_count
    failed_at,              \* positions whose processing recorded a failure
    asset_at,               \* positions whose fetch returned an asset
    remove_failed,          \* assets left behind by an os.remove that raised
    url_calls,              \* calls made so far for the current URL
    written_by,             \* <<position, file>>: the files each position of
                            \* the batch wrote
    cleanup_calls,          \* calls of the last finally-block, with outcomes
    \* --- job layer (interfaces/web) ---
    jobs,                   \* the shared jobs dict: job id -> record
    worker_pc,              \* job id -> position of its worker thread
    worker_reason,          \* job id -> why its worker reports failed
    cancel_call,            \* the request the event loop is serving in
                            \* several steps (a cancel, a status or a result
                            \* request), or NoCancelCall
    response,               \* the last response an endpoint returned
    \* history of the job layer (not program state)
    observed_cancel,        \* job id -> checkpoint that saw the flag set
    \* --- update_status applied on its own ---
    sink_calls,             \* number of callback invocations so far
    last_requested,         \* new_status of the last invocation
    \* --- the command line (interfaces/cli/main.py) ---
    cli_pc,                 \* position inside main()
    cli_reason,             \* why main() called sys.exit, or None
    exit_code,              \* the process exit code, or None while running
    cli_summary,            \* the batch summary main() logged
    \* --- one call of a leaf collaborator ---
    leaf_call,              \* the function called and what it meets
    leaf_result             \* how the call ended

pipelineVars == <<urls_to_process, config, index, pipeline_pc, audio_path,
                  transcript_result, base_filename, fmt_index,
                  format_success_count, url_success, processed_urls_count,
                  failed_urls_list, audio_files, audio_dir_exists,
                  audio_dir_foreign, output_files, fetch_log, processed_at,
                  failed_at, asset_at, remove_failed, url_calls, written_by,
                  cleanup_calls>>

workerVars == <<worker_pc, worker_reason, observed_cancel>>

jobVars == <<jobs, workerVars, cancel_call, response>>

callbackVars == <<sink_calls, last_requested>>

cliVars == <<cli_pc, cli_reason, exit_code, cli_summary>>

leafVars == <<leaf_call, leaf_result>>

vars == <<pipelineVars, jobVars, callbackVars, cliVars, leafVars>>

\* An id no job was ever stored under.
UnknownId == 0

\* No cancel request is being served.
NoCancelCall == [job |-> UnknownId, step |-> "idle", seen |-> None]

\* dict.get on a key that was never stored gives None: the empty set stands
\* for it, and Stored(v) for a key that holds the value v.
Unset == {}

Stored(v) == {v}

\* A response body without job data.
NoData == [status |-> None, error |-> None, output_dir |-> <<>>, files |-> {},
           processed_count |-> Unset, failed_urls |-> Unset]

\* No endpoint has answered yet.
NoResponse == [op |-> None, job |-> UnknownId, result |-> None,
               new_job_id |-> UnknownId, data |-> NoData]

\* The job layer before any job was submitted (jobs = {} in web/main.py).
JobIdle ==
    /\ jobs = <<>>
    /\ worker_pc = <<>>
    /\ worker_reason = <<>>
    /\ cancel_call = NoCancelCall
    /\ response = NoResponse
    /\ observed_cancel = <<>>

CallbackIdle ==
    /\ sink_calls = 0
    /\ last_requested = None

\* main() of the command line is not running.
\* No batch summary was logged.
NoSummary == [total_attempted |-> 0, processed_count |-> 0, failed_urls |-> {}]

CliIdle ==
    /\ cli_pc = "idle"
    /\ cli_reason = None
    /\ exit_code = Unset
    /\ cli_summary = NoSummary

\* No leaf collaborator is being called on its own.
NoLeafCall == [fn |-> None]

NotReturned == [kind |-> "pending", value |-> None]

LeafIdle ==
    /\ leaf_call = NoLeafCall
    /\ leaf_result = NotReturned

\* ------------------------------------------------------------------------
\* run_pipeline: helpers
\* ------------------------------------------------------------------------
current_url == urls_to_process[index]

total_urls == Len(urls_to_process)

requested_formats == config.formats

total_formats == Len(requested_formats)

\* The intermediate asset is named by the fixed template "%(id)s": one path
\* per source, so the same URL maps to the same asset path.
AudioAsset(url) == <<"audio", url>>

\* failed_urls_list.append(current_url) after a fetch or a transcription
\* that returned nothing: appended without a membership test.
RecordFailure(failed, url) == Append(failed, url)

\* "if current_url not in failed_urls_list: failed_urls_list.append(...)".
RecordFailureSkipped(failed, url) == failed

RecordFailureOnce(failed, url) ==
    IF url \in Range(failed) THEN failed ELSE Append(failed, url)

\* Where control goes when a stage of the current URL fails or raises:
\* "continue" and the "except Exception" handler both fall into the
\* finally-block of the same iteration, after which the loop goes on.
FaultContinuationAbort == "aborted"

FaultContinuationGoOn == "basename"

FaultContinuation == "cleanup"

\* url_success as decided after the format loop.
UrlSuccessAllOnly(count, total) == count = total

UrlSuccess(count, total) == count = total \/ count > 0

\* "if audio_path and os.path.exists(audio_path) and not keep_audio".
ShouldRemoveAlways(path, files, keep_audio) == path # NoPath /\ path \in files

ShouldRemove(path, files, keep_audio) ==
    path # NoPath /\ path \in files /\ ~keep_audio

\* base_filename: the stem prepare_filename gives for the URL, or the
\* fallback "transcript" when extract_info / prepare_filename raised.
BasenameStem(r, url) == IF r = "raise" THEN "transcript" ELSE url

\* Where control goes after the basename was settled: the inner except only
\* logs a warning, and the format loop follows (it has no iteration for an
\* empty format list).
AfterBasenameAbortOnRaise(r, n_formats) ==
    IF r = "raise" THEN "cleanup"
    ELSE IF n_formats = 0 THEN "classify" ELSE "format"

AfterBasename(r, n_formats) == IF n_formats = 0 THEN "classify" ELSE "format"

\* The for-loop over urls_to_process: next position, or the end of the run.
NextUrlStage(i, n) == IF i < n THEN "download" ELSE "done"

\* The for-loop over requested_formats: the next format has its iteration
\* whatever the formatter of this one returned (r) or raised; the
\* per-format except only logs.
NextFormatStageStopOnFailure(r, i, n) ==
    IF r = "true" /\ i < n THEN "format" ELSE "classify"

NextFormatStage(r, i, n) == IF i < n THEN "format" ELSE "classify"

\* config.get(key, default). A value of the configuration is Stored(v), or
\* Unset for a key that holds None.
ConfigGet(cfg, key, default) == IF key \in DOMAIN cfg THEN cfg[key] ELSE default

DEFAULT_MODEL_CORE == "whisper-1"

\* 0.0; temperatures are counted in tenths.
DEFAULT_TEMPERATURE_CORE == 0

\* transcribe_args as built from the configuration.
TranscribeArgs(cfg) ==
    [language |-> ConfigGet(cfg, "language", Unset),
     prompt |-> ConfigGet(cfg, "prompt", Unset),
     temperature |-> ConfigGet(cfg, "temperature", Stored(DEFAULT_TEMPERATURE_CORE)),
     speaker_labels |-> ConfigGet(cfg, "speaker_labels", Stored(FALSE)),
     response_format |-> Stored("verbose_json")]

\* transcribe_args_filtered: {k: v for k, v in ... if v is not None}.
TranscribeArgsUnfiltered(args) == args

TranscribeArgsFiltered(args) ==
    [k \in {key \in DOMAIN args : args[key] # Unset} |-> args[k]]

\* The call of transcribe_audio_lemonfox: positional-by-name arguments and
\* the filtered keyword arguments.
TranscribeCall(path, cfg) ==
    [audio_path |-> path,
     model_name |-> ConfigGet(cfg, "model", Stored(DEFAULT_MODEL_CORE)),
     kwargs |-> TranscribeArgsFiltered(TranscribeArgs(cfg))]

\* What os.rmdir(audio_output_dir) can do: it removes an empty directory
\* unless the operating system refuses, and raises OSError on one that
\* still holds files (assets left behind, or files of somebody else).
RmdirOutcomesNeverRemoved(files_left, foreign) == {"not_empty"}

RmdirOutcomes(files_left, foreign) ==
    IF files_left = {} /\ ~foreign THEN {"removed", "error"} ELSE {"not_empty"}

\* ------------------------------------------------------------------------
\* run_pipeline: initial state of one call
\* ------------------------------------------------------------------------
PipelineIdle ==
    /\ index = 1
    /\ audio_path = NoPath
    /\ transcript_result = None
    /\ base_filename = None
    /\ fmt_index = 1
    /\ format_success_count = 0
    /\ url_success = FALSE
    /\ processed_urls_count = 0
    /\ failed_urls_list = <<>>
    /\ audio_files = {}
    /\ audio_dir_exists = TRUE
    /\ output_files = {}
    /\ fetch_log = <<>>
    /\ processed_at = {}
    /\ failed_at = {}
    /\ asset_at = {}
    /\ remove_failed = {}
    /\ url_calls = <<>>
    /\ written_by = {}
    /\ cleanup_calls = <<>>

PipelineInit ==
    /\ urls_to_process \in SeqsUpTo(Urls, MaxUrls)
    /\ config \in [formats : SeqsUpTo(FormatNames, MaxFormats), keep_audio : BOOLEAN]
    /\ pipeline_pc = NextUrlStage(0, Len(urls_to_process))
    /\ audio_dir_foreign \in BOOLEAN
    /\ PipelineIdle
    /\ JobIdle
    /\ CallbackIdle
    /\ CliIdle
    /\ LeafIdle

\* ------------------------------------------------------------------------
\* run_pipeline: the loop body, one action per stage
\* ------------------------------------------------------------------------
\* Step 1: download_audio_python_api returns a path, returns None, or raises.
DownloadAudio ==
    /\ pipeline_pc = "download"
    /\ UNCHANGED <<jobVars, callbackVars, cliVars, leafVars>>
    /\ fetch_log' = Append(fetch_log, current_url)
    /\ url_calls' = Append(url_calls, <<"download", current_url>>)
    /\ \E r \in {"path", "none", "raise"} :
        \/ /\ r = "path"
           /\ audio_path' = AudioAsset(current_url)
           /\ audio_files' = audio_files \cup {AudioAsset(current_url)}
           /\ audio_dir_exists' = TRUE
           /\ asset_at' = asset_at \cup {index}
           /\ pipeline_pc' = "transcribe"
           /\ UNCHANGED <<failed_urls_list, failed_at>>
        \/ /\ r = "none"
           /\ failed_urls_list' = RecordFailure(failed_urls_list, current_url)
           /\ failed_at' = failed_at \cup {index}
           /\ pipeline_pc' = FaultContinuation
           /\ UNCHANGED <<audio_path, audio_files, audio_dir_exists, asset_at>>
        \/ /\ r = "raise"
           /\ failed_urls_list' = RecordFailureOnce(failed_urls_list, current_url)
           /\ failed_at' = failed_at \cup {index}
           /\ pipeline_pc' = FaultContinuation
           /\ UNCHANGED <<audio_path, audio_files, audio_dir_exists, asset_at>>
    /\ UNCHANGED <<urls_to_process, config, index, base_filename, fmt_index,
                   format_success_count, url_success, processed_urls_count,
                   output_files, processed_at, remove_failed,
                   transcript_result, audio_dir_foreign, written_by,
                   cleanup_calls>>

\* Step 2: transcribe_audio_lemonfox returns a result, returns None, or raises.
TranscribeAudio ==
    /\ pipeline_pc = "transcribe"
    /\ UNCHANGED <<jobVars, callbackVars, cliVars, leafVars>>
    /\ url_calls' = Append(url_calls, <<"transcribe", current_url,
                                        TranscribeCall(audio_path, config)>>)
    /\ \E r \in {"result", "none", "raise"} :
        \/ /\ r = "result"
           /\ transcript_result' = <<"transcript", current_url>>
           /\ pipeline_pc' = "basename"
           /\ UNCHANGED <<failed_urls_list, failed_at>>
        \/ /\ r = "none"
           /\ transcript_result' = None
           /\ failed_urls_list' = RecordFailure(failed_urls_list, current_url)
           /\ failed_at' = failed_at \cup {index}
           /\ pipeline_pc' = FaultContinuation
        \/ /\ r = "raise"
           /\ transcript_result' = None
           /\ failed_urls_list' = RecordFailureOnce(failed_urls_list, current_url)
           /\ failed_at' = failed_at \cup {index}
           /\ pipeline_pc' = FaultContinuation
    /\ UNCHANGED <<urls_to_process, config, index, audio_path, base_filename,
                   fmt_index, format_success_count, url_success,
                   processed_urls_count, audio_files, audio_dir_exists,
                   output_files, fetch_log, processed_at, asset_at,
                   remove_failed, audio_dir_foreign, written_by,
                   cleanup_calls>>

\* Step 3 (first half): the stem from the filename template, or the
\* fallback "transcript" when extract_info / prepare_filename raises.
ResolveBasename ==
    /\ pipeline_pc = "basename"
    /\ UNCHANGED <<jobVars, callbackVars, cliVars, leafVars>>
    /\ \E r \in {"resolved", "raise"} :
        /\ base_filename' = BasenameStem(r, current_url)
        /\ url_calls' = Append(url_calls, <<"basename", r>>)
        /\ pipeline_pc' = AfterBasename(r, total_formats)
    /\ fmt_index' = 1
    /\ format_success_count' = 0
    /\ UNCHANGED <<urls_to_process, config, index, audio_path, url_success,
                   processed_urls_count, failed_urls_list, audio_files,
                   audio_dir_exists, output_files, fetch_log, processed_at,
                   failed_at, asset_at, remove_failed, transcript_result,
                   audio_dir_foreign, written_by, cleanup_calls>>

\* Step 3 (format loop): one requested format. Only "txt" and "srt" call a
\* formatter; it returns True, returns False, or raises (caught per format).
GenerateFormat ==
    /\ pipeline_pc = "format"
    /\ UNCHANGED <<jobVars, callbackVars, cliVars, leafVars>>
    /\ LET fmt == requested_formats[fmt_index] IN
       \E r \in (IF fmt \in {"txt", "srt"} THEN {"true", "false", "raise"} ELSE {"false"}) :
          /\ format_success_count' = IF r = "true" THEN format_success_count + 1
                                     ELSE format_success_count
          /\ output_files' = IF r = "true" THEN output_files \cup {<<base_filename, fmt>>}
                             ELSE output_files
          /\ written_by' = IF r = "true"
                           THEN written_by \cup {<<index, <<base_filename, fmt>>>>}
                           ELSE written_by
          /\ pipeline_pc' = NextFormatStage(r, fmt_index, total_formats)
    /\ fmt_index' = fmt_index + 1
    /\ url_calls' = Append(url_calls, <<"format", requested_formats[fmt_index]>>)
    /\ UNCHANGED <<urls_to_process, config, index, audio_path, base_filename,
                   url_success, processed_urls_count, failed_urls_list,
                   audio_files, audio_dir_exists, fetch_log, processed_at,
                   failed_at, asset_at, remove_failed, transcript_result,
                   audio_dir_foreign, cleanup_calls>>

\* After the format loop: classify the URL and count it.
ClassifyUrl ==
    /\ pipeline_pc = "classify"
    /\ UNCHANGED <<jobVars, callbackVars, cliVars, leafVars>>
    /\ LET ok == UrlSuccess(format_success_count, total_formats) IN
       /\ url_success' = ok
       /\ failed_urls_list' = IF ok THEN failed_urls_list
                              ELSE RecordFailureOnce(failed_urls_list, current_url)
       /\ failed_at' = IF ok THEN failed_at ELSE failed_at \cup {index}
       /\ processed_urls_count' = IF ok THEN processed_urls_count + 1
                                  ELSE processed_urls_count
       /\ processed_at' = IF ok THEN processed_at \cup {index} ELSE processed_at
    /\ pipeline_pc' = "cleanup"
    /\ UNCHANGED <<urls_to_process, config, index, audio_path, base_filename,
                   fmt_index, format_success_count, audio_files,
                   audio_dir_exists, output_files, fetch_log, asset_at,
                   remove_failed, url_calls, transcript_result,
                   audio_dir_foreign, written_by, cleanup_calls>>

\* The finally-block, then the next iteration (which resets the per-URL
\* locals). os.remove may fail with OSError (logged); os.rmdir is called
\* after a removal that did not raise, on a directory that exists, and its
\* OSError is ignored.
Cleanup ==
    /\ pipeline_pc = "cleanup"
    /\ UNCHANGED <<jobVars, callbackVars, cliVars, leafVars>>
    /\ IF ShouldRemove(audio_path, audio_files, config.keep_audio)
       THEN \E removed \in BOOLEAN :
              IF removed
              THEN /\ audio_files' = audio_files \ {audio_path}
                   /\ remove_failed' = remove_failed \ {audio_path}
                   /\ IF audio_dir_exists
                      THEN \E r \in RmdirOutcomes(audio_files \ {audio_path},
                                                  audio_dir_foreign) :
                             /\ audio_dir_exists' = (r # "removed")
                             /\ cleanup_calls' = <<<<"remove", "removed">>,
                                                   <<"rmdir", r>>>>
                      ELSE /\ cleanup_calls' = <<<<"remove", "removed">>>>
                           /\ UNCHANGED audio_dir_exists
              ELSE /\ remove_failed' = remove_failed \cup {audio_path}
                   /\ cleanup_calls' = <<<<"remove", "error">>>>
                   /\ UNCHANGED <<audio_files, audio_dir_exists>>
       ELSE /\ cleanup_calls' = <<>>
            /\ UNCHANGED <<audio_files, audio_dir_exists, remove_failed>>
    /\ pipeline_pc' = NextUrlStage(index, total_urls)
    /\ index' = index + 1
    /\ audio_path' = NoPath
    /\ base_filename' = None
    /\ fmt_index' = 1
    /\ format_success_count' = 0
    /\ url_success' = FALSE
    /\ url_calls' = <<>>
    /\ transcript_result' = None
    /\ UNCHANGED <<urls_to_process, config, processed_urls_count,
                   failed_urls_list, output_files, fetch_log, processed_at,
                   failed_at, asset_at, audio_dir_foreign, written_by>>

PipelineNext ==
    \/ DownloadAudio
    \/ TranscribeAudio
    \/ ResolveBasename
    \/ GenerateFormat
    \/ ClassifyUrl
    \/ Cleanup

PipelineSpec == PipelineInit /\ [][PipelineNext]_vars

\* ------------------------------------------------------------------------
\* run_pipeline on one URL, over the transcription options of the
\* configuration. A key of the configuration is absent, or holds a value;
\* "language" and "prompt" may also hold None (the web request model and the
\* argument parser both default them to None), the other keys never do.
\* ------------------------------------------------------------------------
Languages == {"en"}

Prompts == {"a prompt"}

\* In tenths: 0.0 and 0.7.
Temperatures == {0, 7}

Models == {"whisper-1", "whisper-large-v3"}

NoKeys == [k \in {} |-> Unset]

OptionalKey(key, values) == {NoKeys} \cup {[k \in {key} |-> v] : v \in values}

TranscribeConfigs ==
    {[formats |-> <<"txt">>, keep_audio |-> FALSE] @@ l @@ p @@ t @@ sl @@ m :
        l \in OptionalKey("language", {Unset} \cup {Stored(v) : v \in Languages}),
        p \in OptionalKey("prompt", {Unset} \cup {Stored(v) : v \in Prompts}),
        t \in OptionalKey("temperature", {Stored(v) : v \in Temperatures}),
        sl \in OptionalKey("speaker_labels", {Stored(v) : v \in BOOLEAN}),
        m \in OptionalKey("model", {Stored(v) : v \in Models})}

TranscribeInit ==
    /\ urls_to_process = <<"u1">>
    /\ config \in TranscribeConfigs
    /\ pipeline_pc = NextUrlStage(0, Len(urls_to_process))
    /\ audio_dir_foreign = FALSE
    /\ PipelineIdle
    /\ JobIdle
    /\ CallbackIdle
    /\ CliIdle
    /\ LeafIdle

TranscribeSpec == TranscribeInit /\ [][PipelineNext]_vars

\* ========================================================================
\* The job layer: interfaces/web/processing.py and interfaces/web/main.py
\* ========================================================================
MaxJobs == 2

STATUS_PENDING == "pending"

STATUS_PROCESSING == "processing"

STATUS_DOWNLOADING == "downloading"

STATUS_TRANSCRIBING == "transcribing"

STATUS_FORMATTING == "formatting"

STATUS_COMPLETED == "completed"

STATUS_FAILED == "failed"

STATUS_CANCELLING == "cancelling"

STATUS_CANCELLED == "cancelled"

Statuses == {STATUS_PENDING, STATUS_PROCESSING, STATUS_DOWNLOADING,
             STATUS_TRANSCRIBING, STATUS_FORMATTING, STATUS_COMPLETED,
             STATUS_FAILED, STATUS_CANCELLING, STATUS_CANCELLED}

TerminalStatuses == {STATUS_COMPLETED, STATUS_FAILED, STATUS_CANCELLED}

\* cancellable_statuses of cancel_job_endpoint.
cancellable_statuses_with_failed ==
    {STATUS_PENDING, STATUS_PROCESSING, STATUS_DOWNLOADING,
     STATUS_TRANSCRIBING, STATUS_FORMATTING, STATUS_FAILED}

cancellable_statuses ==
    {STATUS_PENDING, STATUS_PROCESSING, STATUS_DOWNLOADING,
     STATUS_TRANSCRIBING, STATUS_FORMATTING}

ERR_NO_KEY == "API key not configured."

ERR_UNEXPECTED == "An unexpected error occurred"

\* The URL lists and configurations submitted in this model. In the job
\* layer "u2" stands for a source the fetcher cannot fetch and "u1" for one
\* that fetches, transcribes and formats.
\* JobConfigRequest with its defaults (formats txt and srt, keep_audio off).
DefaultJobConfig == [formats |-> <<"txt", "srt">>, keep_audio |-> FALSE]

JobRequests ==
    {[urls |-> <<"u1">>, config |-> DefaultJobConfig],
     [urls |-> <<"u1", "u2">>, config |-> [formats |-> <<"txt">>, keep_audio |-> TRUE]]}

UnfetchableUrls == {"u2"}

\* jobs_dict[key] = value: inserts, or overwrites what is stored under key.
PutEverywhere(f, k, v) == [x \in DOMAIN f \cup {k} |-> v]

Put(f, k, v) == [x \in DOMAIN f \cup {k} |-> IF x = k THEN v ELSE f[x]]

\* The record start_job stores (submitted_at, a timestamp nothing reads, is
\* left out).
NewRecordDefaultConfig(urls, cfg) ==
    [status |-> STATUS_PENDING,
     original_urls |-> urls,
     original_config |-> DefaultJobConfig,
     output_dir |-> NoPath,
     files |-> {},
     error |-> None,
     cancelled |-> FALSE,
     processed_count |-> Unset,
     failed_urls |-> Unset]

NewRecord(urls, cfg) ==
    [status |-> STATUS_PENDING,
     original_urls |-> urls,
     original_config |-> cfg,
     output_dir |-> NoPath,
     files |-> {},
     error |-> None,
     cancelled |-> FALSE,
     processed_count |-> Unset,
     failed_urls |-> Unset]

\* str(uuid.uuid4()): a value that is not yet a key of the dict.
NewJobIdFixed(js) == 1

NewJobId(js) == Cardinality(DOMAIN js) + 1

\* start_job: store the record, then start the worker thread, which begins
\* at its before-start checkpoint.
StartJob(urls, cfg) ==
    LET job_id == NewJobId(jobs) IN
    /\ jobs' = Put(jobs, job_id, NewRecord(urls, cfg))
    /\ worker_pc' = Put(worker_pc, job_id, "check_start")
    /\ worker_reason' = Put(worker_reason, job_id, None)
    /\ observed_cancel' = Put(observed_cancel, job_id, None)

\* ------------------------------------------------------------------------
\* update_status(new_status), the worker's status callback
\* ------------------------------------------------------------------------
\* The first test: a cancellation request turns any update but CANCELLED
\* into CANCELLED.
CancellationDetected(rec, new_status) ==
    new_status # STATUS_CANCELLED /\ rec.cancelled

\* The second test: the only status that is protected from being
\* overwritten is CANCELLED.
UpdateIgnored(rec, new_status) ==
    rec.status = STATUS_CANCELLED /\ new_status # STATUS_CANCELLED

\* The rest of the body once the first test was false.
ApplyStatus(rec, new_status) ==
    IF UpdateIgnored(rec, new_status) THEN rec
    ELSE [rec EXCEPT !.status = new_status]

\* The whole callback, run without interruption.
UpdateStatus(rec, new_status) ==
    IF CancellationDetected(rec, new_status)
    THEN [rec EXCEPT !.status = STATUS_CANCELLED]
    ELSE ApplyStatus(rec, new_status)

\* ------------------------------------------------------------------------
\* run_transcription_job_in_background: the worker thread of job j.
\* Every step reads or writes the shared dict at most once, so the
\* endpoints (served by another thread) can run between any two steps.
\* ------------------------------------------------------------------------
\* "Check for Cancellation Before Starting".
WorkerCheckStart(j) ==
    /\ worker_pc[j] = "check_start"
    /\ IF jobs[j].cancelled
       THEN /\ observed_cancel' = [observed_cancel EXCEPT ![j] = "start"]
            /\ worker_pc' = [worker_pc EXCEPT ![j] = "set_cancelled"]
       ELSE /\ worker_pc' = [worker_pc EXCEPT ![j] = "prepare"]
            /\ UNCHANGED observed_cancel
    /\ UNCHANGED <<jobs, worker_reason, cancel_call, response,
                   pipelineVars, callbackVars, cliVars, leafVars>>

\* update_status(STATUS_CANCELLED) followed by return, at either checkpoint.
WorkerSetCancelled(j) ==
    /\ worker_pc[j] = "set_cancelled"
    /\ jobs' = [jobs EXCEPT ![j] = UpdateStatus(@, STATUS_CANCELLED)]
    /\ worker_pc' = [worker_pc EXCEPT ![j] = "done"]
    /\ UNCHANGED <<worker_reason, observed_cancel, cancel_call, response,
                   pipelineVars, callbackVars, cliVars, leafVars>>

\* From load_dotenv to jobs_dict[job_id]["output_dir"] = job_output_dir:
\* os.getenv("LEMONFOX_API_KEY") gives a key or nothing; with a key, the two
\* os.makedirs succeed or raise OSError (caught by "except Exception"); the
\* only access to the shared dict is the last statement.
WorkerPrepare(j) ==
    /\ worker_pc[j] = "prepare"
    /\ \E outcome \in {"no_key", "makedirs_raised", "ready"} :
        IF outcome = "ready"
        THEN /\ jobs' = [jobs EXCEPT ![j].output_dir = <<"web_outputs", j>>]
             /\ worker_pc' = [worker_pc EXCEPT ![j] = "check_pre_pipeline"]
             /\ UNCHANGED worker_reason
        ELSE /\ worker_reason' = [worker_reason EXCEPT ![j] = outcome]
             /\ worker_pc' = [worker_pc EXCEPT ![j] = "status_check"]
             /\ UNCHANGED jobs
    /\ UNCHANGED <<observed_cancel, cancel_call, response,
                   pipelineVars, callbackVars, cliVars, leafVars>>

\* "Check for Cancellation Before Running Pipeline".
WorkerCheckPrePipeline(j) ==
    /\ worker_pc[j] = "check_pre_pipeline"
    /\ IF jobs[j].cancelled
       THEN /\ observed_cancel' = [observed_cancel EXCEPT ![j] = "pre_pipeline"]
            /\ worker_pc' = [worker_pc EXCEPT ![j] = "set_cancelled"]
       ELSE /\ worker_pc' = [worker_pc EXCEPT ![j] = "call_pipeline"]
            /\ UNCHANGED observed_cancel
    /\ UNCHANGED <<jobs, worker_reason, cancel_call, response,
                   pipelineVars, callbackVars, cliVars, leafVars>>

\* The parameters run_pipeline declares, and the keywords the worker passes.
RunPipelineParameters ==
    {"urls_to_process", "api_key", "config", "audio_output_dir", "output_dir"}

WorkerCallKeywords ==
    {"urls_to_process", "api_key", "config", "audio_output_dir", "output_dir",
     "status_update_callback"}

\* A call with a keyword the function does not declare raises TypeError
\* before the function body runs.
CallRaisesTypeError(keywords, parameters) == ~(keywords \subseteq parameters)

\* pipeline_results = run_pipeline(..., status_update_callback=update_status)
\* inside the try-block. The call raises: control goes to "except Exception".
\* The else-branch of the try (the statements after a normal return) would
\* start at "pipeline_returned"; no execution gets there.
WorkerCallPipeline(j) ==
    /\ worker_pc[j] = "call_pipeline"
    /\ IF CallRaisesTypeError(WorkerCallKeywords, RunPipelineParameters)
       THEN /\ worker_reason' = [worker_reason EXCEPT ![j] = "pipeline_raised"]
            /\ worker_pc' = [worker_pc EXCEPT ![j] = "status_check"]
       ELSE /\ worker_pc' = [worker_pc EXCEPT ![j] = "pipeline_returned"]
            /\ UNCHANGED worker_reason
    /\ UNCHANGED <<jobs, observed_cancel, cancel_call, response,
                   pipelineVars, callbackVars, cliVars, leafVars>>

\* The worker of job j reached the call of run_pipeline.
PipelineCalled(j) ==
    worker_reason[j] = "pipeline_raised" \/ worker_pc[j] = "pipeline_returned"

\* update_status(STATUS_FAILED), first test: reads the cancelled flag.
WorkerStatusCheck(j) ==
    /\ worker_pc[j] = "status_check"
    /\ worker_pc' = [worker_pc EXCEPT ![j] =
            IF CancellationDetected(jobs[j], STATUS_FAILED)
            THEN "status_set_cancelled" ELSE "status_apply"]
    /\ UNCHANGED <<jobs, worker_reason, observed_cancel, cancel_call, response,
                   pipelineVars, callbackVars, cliVars, leafVars>>

\* update_status(STATUS_FAILED), cancellation detected: status = CANCELLED.
WorkerStatusSetCancelled(j) ==
    /\ worker_pc[j] = "status_set_cancelled"
    /\ jobs' = [jobs EXCEPT ![j].status = STATUS_CANCELLED]
    /\ worker_pc' = [worker_pc EXCEPT ![j] = "set_error"]
    /\ UNCHANGED <<worker_reason, observed_cancel, cancel_call, response,
                   pipelineVars, callbackVars, cliVars, leafVars>>

\* update_status(STATUS_FAILED), no cancellation detected: the status is
\* read and written. (Only this worker ever stores CANCELLED, so what the
\* read decides cannot change before the write.)
WorkerStatusApply(j) ==
    /\ worker_pc[j] = "status_apply"
    /\ jobs' = [jobs EXCEPT ![j] = ApplyStatus(@, STATUS_FAILED)]
    /\ worker_pc' = [worker_pc EXCEPT ![j] = "set_error"]
    /\ UNCHANGED <<worker_reason, observed_cancel, cancel_call, response,
                   pipelineVars, callbackVars, cliVars, leafVars>>

\* str(e) of the exception the try-block raised: the OSError of os.makedirs,
\* or the TypeError of the call of run_pipeline.
ExceptionMessage(reason) ==
    IF reason = "makedirs_raised" THEN "[Errno 13] Permission denied"
    ELSE "run_pipeline() got an unexpected keyword argument 'status_update_callback'"

\* The message stored after update_status(STATUS_FAILED).
ErrorMessageEmpty(reason) == ""

ErrorMessageWithoutException(reason) ==
    IF reason = "no_key" THEN ERR_NO_KEY ELSE ERR_UNEXPECTED

\* "API key not configured.", or f"An unexpected error occurred: {str(e)}"
\* for the exception e that was caught.
ErrorMessage(reason) ==
    IF reason = "no_key" THEN ERR_NO_KEY
    ELSE ERR_UNEXPECTED \o ": " \o ExceptionMessage(reason)

\* jobs_dict[job_id]["error"] = ..., after update_status(STATUS_FAILED).
WorkerSetError(j) ==
    /\ worker_pc[j] = "set_error"
    /\ jobs' = [jobs EXCEPT ![j].error = ErrorMessage(worker_reason[j])]
    /\ worker_pc' = [worker_pc EXCEPT ![j] = "done"]
    /\ UNCHANGED <<worker_reason, observed_cancel, cancel_call, response,
                   pipelineVars, callbackVars, cliVars, leafVars>>

WorkerStep(j) ==
    \/ WorkerCheckStart(j)
    \/ WorkerSetCancelled(j)
    \/ WorkerPrepare(j)
    \/ WorkerCheckPrePipeline(j)
    \/ WorkerCallPipeline(j)
    \/ WorkerStatusCheck(j)
    \/ WorkerStatusSetCancelled(j)
    \/ WorkerStatusApply(j)
    \/ WorkerSetError(j)

\* ------------------------------------------------------------------------
\* The endpoints of web/main.py. They are coroutines without an await, all
\* served by the one event-loop thread: an endpoint starts only when none is
\* being served (cancel_call = NoCancelCall), while the worker threads run between
\* the statements of an endpoint that touches a job record.
\* ------------------------------------------------------------------------
Response(op, job, result, new_job) ==
    [op |-> op, job |-> job, result |-> result, new_job_id |-> new_job,
     data |-> NoData]

\* The body of a 200 answer of /status or /result.
DataResponse(op, job, data) ==
    [op |-> op, job |-> job, result |-> "ok", new_job_id |-> UnknownId,
     data |-> data]

\* submit_job_endpoint: 400 on an empty URL list, else start_job.
SubmitJob ==
    /\ cancel_call = NoCancelCall
    /\ \E req \in JobRequests \cup {[urls |-> <<>>, config |-> DefaultJobConfig]} :
        IF req.urls = <<>>
        THEN /\ response' = Response("submit", UnknownId, "no_urls", UnknownId)
             /\ UNCHANGED <<jobs, workerVars>>
        ELSE /\ Cardinality(DOMAIN jobs) < MaxJobs
             /\ StartJob(req.urls, req.config)
             /\ response' = Response("submit", UnknownId, "accepted", NewJobId(jobs))
    /\ UNCHANGED <<cancel_call, pipelineVars, callbackVars, cliVars, leafVars>>

\* "if not original_urls or not original_config" of retry_job_endpoint.
RetryDataMissing(rec) ==
    rec.original_urls = <<>> \/ DOMAIN rec.original_config = {}

\* The status a job must have to be retried.
RetryAllowedAlsoCancelled(rec) == rec.status \in {STATUS_FAILED, STATUS_CANCELLED}

RetryAllowed(rec) == rec.status = STATUS_FAILED

\* What retry_job_endpoint hands to start_job.
RetryRequestDefaultConfig(rec) ==
    [urls |-> rec.original_urls, config |-> DefaultJobConfig]

RetryRequest(rec) ==
    [urls |-> rec.original_urls, config |-> rec.original_config]

\* retry_job_endpoint: 404, 400, 500, or a new job from the stored request.
RetryJob(id) ==
    /\ cancel_call = NoCancelCall
    /\ IF id \notin DOMAIN jobs
       THEN /\ response' = Response("retry", id, "not_found", UnknownId)
            /\ UNCHANGED <<jobs, workerVars>>
       ELSE IF ~RetryAllowed(jobs[id])
       THEN /\ response' = Response("retry", id, "only_failed", UnknownId)
            /\ UNCHANGED <<jobs, workerVars>>
       ELSE IF RetryDataMissing(jobs[id])
       THEN /\ response' = Response("retry", id, "data_missing", UnknownId)
            /\ UNCHANGED <<jobs, workerVars>>
       ELSE /\ Cardinality(DOMAIN jobs) < MaxJobs
            /\ StartJob(RetryRequest(jobs[id]).urls, RetryRequest(jobs[id]).config)
            /\ response' = Response("retry", id, "accepted", NewJobId(jobs))
    /\ UNCHANGED <<cancel_call, pipelineVars, callbackVars, cliVars, leafVars>>

\* The branch cancel_job_endpoint takes on the status it read.
CancelOutcomeReaccepting(current_status) ==
    IF current_status \in cancellable_statuses \cup {STATUS_CANCELLING} THEN "requested"
    ELSE IF current_status = STATUS_CANCELLED THEN "already"
    ELSE "not_cancellable"

CancelOutcome(current_status) ==
    IF current_status \in cancellable_statuses THEN "requested"
    ELSE IF current_status \in {STATUS_CANCELLING, STATUS_CANCELLED} THEN "already"
    ELSE "not_cancellable"

\* cancel_job_endpoint up to the branch: jobs.get, job_info.get("status").
\* 404, "already ..." and 400 return at once; the cancellable branch goes on
\* to its two writes.
CancelRead(id) ==
    /\ cancel_call = NoCancelCall
    /\ IF id \notin DOMAIN jobs
       THEN /\ response' = Response("cancel", id, "not_found", UnknownId)
            /\ UNCHANGED cancel_call
       ELSE IF CancelOutcome(jobs[id].status) = "requested"
       THEN /\ cancel_call' = [job |-> id, step |-> "set_flag",
                               seen |-> jobs[id].status]
            /\ UNCHANGED response
       ELSE /\ response' = Response("cancel", id, CancelOutcome(jobs[id].status), UnknownId)
            /\ UNCHANGED cancel_call
    /\ UNCHANGED <<jobs, workerVars, pipelineVars, callbackVars, cliVars, leafVars>>

\* job_info["cancelled"] = True
CancelSetFlag ==
    /\ cancel_call.step = "set_flag"
    /\ jobs' = [jobs EXCEPT ![cancel_call.job].cancelled = TRUE]
    /\ cancel_call' = [cancel_call EXCEPT !.step = "set_status"]
    /\ UNCHANGED <<workerVars, response, pipelineVars, callbackVars, cliVars, leafVars>>

\* job_info["status"] = STATUS_CANCELLING, then the 200 response.
CancelSetStatus ==
    /\ cancel_call.step = "set_status"
    /\ jobs' = [jobs EXCEPT ![cancel_call.job].status = STATUS_CANCELLING]
    /\ response' = Response("cancel", cancel_call.job, "requested", UnknownId)
    /\ cancel_call' = NoCancelCall
    /\ UNCHANGED <<workerVars, pipelineVars, callbackVars, cliVars, leafVars>>

\* get_job_status_endpoint up to job_info.get("status"): 404, or the status
\* is read and the endpoint goes on to read the error.
StatusRead(id) ==
    /\ cancel_call = NoCancelCall
    /\ IF id \notin DOMAIN jobs
       THEN /\ response' = Response("status", id, "not_found", UnknownId)
            /\ UNCHANGED cancel_call
       ELSE /\ cancel_call' = [job |-> id, step |-> "status_error",
                               seen |-> jobs[id].status]
            /\ UNCHANGED response
    /\ UNCHANGED <<jobs, workerVars, pipelineVars, callbackVars, cliVars, leafVars>>

\* job_info.get("error"), then the 200 response.
StatusReadError ==
    /\ cancel_call.step = "status_error"
    /\ response' = DataResponse("status", cancel_call.job,
                       [NoData EXCEPT !.status = cancel_call.seen,
                                      !.error = jobs[cancel_call.job].error])
    /\ cancel_call' = NoCancelCall
    /\ UNCHANGED <<jobs, workerVars, pipelineVars, callbackVars, cliVars, leafVars>>

\* 'if status not in ["completed", "failed"]' of get_job_result_endpoint:
\* the statuses for which the result data is returned.
ResultAvailable(status) == status \in {STATUS_COMPLETED, STATUS_FAILED}

\* get_job_result_endpoint up to the status test: 404, 400 "still in
\* progress", or the endpoint goes on to collect the result data.
ResultRead(id) ==
    /\ cancel_call = NoCancelCall
    /\ IF id \notin DOMAIN jobs
       THEN /\ response' = Response("result", id, "not_found", UnknownId)
            /\ UNCHANGED cancel_call
       ELSE IF ~ResultAvailable(jobs[id].status)
       THEN /\ response' = Response("result", id, "not_finished", UnknownId)
            /\ UNCHANGED cancel_call
       ELSE /\ cancel_call' = [job |-> id, step |-> "result_build",
                               seen |-> jobs[id].status]
            /\ UNCHANGED response
    /\ UNCHANGED <<jobs, workerVars, pipelineVars, callbackVars, cliVars, leafVars>>

\* response_data of get_job_result_endpoint: the status read before, and the
\* other fields as the record holds them now.
ResultBuild ==
    /\ cancel_call.step = "result_build"
    /\ LET rec == jobs[cancel_call.job] IN
       response' = DataResponse("result", cancel_call.job,
                       [status |-> cancel_call.seen,
                        error |-> rec.error,
                        output_dir |-> rec.output_dir,
                        files |-> rec.files,
                        processed_count |-> rec.processed_count,
                        failed_urls |-> rec.failed_urls])
    /\ cancel_call' = NoCancelCall
    /\ UNCHANGED <<jobs, workerVars, pipelineVars, callbackVars, cliVars, leafVars>>

\* ------------------------------------------------------------------------
\* The job layer as a whole
\* ------------------------------------------------------------------------
Init ==
    /\ urls_to_process = <<>>
    /\ config = [formats |-> <<>>, keep_audio |-> FALSE]
    /\ pipeline_pc = "done"
    /\ audio_dir_foreign = FALSE
    /\ PipelineIdle
    /\ LeafIdle
    /\ JobIdle
    /\ CallbackIdle
    /\ CliIdle

Next ==
    \/ SubmitJob
    \/ \E id \in DOMAIN jobs \cup {UnknownId} : RetryJob(id)
    \/ \E id \in DOMAIN jobs \cup {UnknownId} : CancelRead(id)
    \/ CancelSetFlag
    \/ CancelSetStatus
    \/ \E id \in DOMAIN jobs \cup {UnknownId} : StatusRead(id)
    \/ StatusReadError
    \/ \E id \in DOMAIN jobs \cup {UnknownId} : ResultRead(id)
    \/ ResultBuild
    \/ \E j \in DOMAIN jobs : WorkerStep(j)

Spec == Init /\ [][Next]_vars

\* The same system with its scheduling: every worker thread that can take a
\* step eventually takes it, and the event loop finishes every request it
\* has started to serve. Requests themselves arrive or not, at any time.
Fairness ==
    /\ \A j \in 1..MaxJobs : WF_vars(j \in DOMAIN jobs /\ WorkerStep(j))
    /\ WF_vars(CancelSetFlag)
    /\ WF_vars(CancelSetStatus)
    /\ WF_vars(StatusReadError)
    /\ WF_vars(ResultBuild)

FairSpec == Spec /\ Fairness

\* ------------------------------------------------------------------------
\* update_status on its own: one record, the callback invoked with any
\* status by whoever holds it, and cancellation requests in between.
\* ------------------------------------------------------------------------
MaxCalls == 3

TheJob == NewJobId(<<>>)

CallbackInit ==
    /\ urls_to_process = <<>>
    /\ config = [formats |-> <<>>, keep_audio |-> FALSE]
    /\ pipeline_pc = "done"
    /\ audio_dir_foreign = FALSE
    /\ PipelineIdle
    /\ LeafIdle
    /\ jobs = Put(<<>>, TheJob, NewRecord(<<"u1">>, [formats |-> <<"txt">>, keep_audio |-> FALSE]))
    /\ worker_pc = <<>>
    /\ worker_reason = <<>>
    /\ cancel_call = NoCancelCall
    /\ response = NoResponse
    /\ observed_cancel = <<>>
    /\ CallbackIdle
    /\ CliIdle

\* update_status(new_status) called once, start to end.
CallbackInvoke ==
    /\ sink_calls < MaxCalls
    /\ \E new_status \in Statuses :
        /\ jobs' = [jobs EXCEPT ![TheJob] = UpdateStatus(@, new_status)]
        /\ last_requested' = new_status
    /\ sink_calls' = sink_calls + 1
    /\ UNCHANGED <<workerVars, cancel_call, response, pipelineVars, cliVars, leafVars>>

\* cancel_job_endpoint served between two invocations of the callback.
CallbackCancel ==
    /\ response' = Response("cancel", TheJob, CancelOutcome(jobs[TheJob].status), UnknownId)
    /\ jobs' = IF CancelOutcome(jobs[TheJob].status) = "requested"
               THEN [jobs EXCEPT ![TheJob].cancelled = TRUE,
                                 ![TheJob].status = STATUS_CANCELLING]
               ELSE jobs
    /\ UNCHANGED <<workerVars, cancel_call, pipelineVars, callbackVars, cliVars, leafVars>>

CallbackNext ==
    \/ CallbackInvoke
    \/ CallbackCancel

CallbackSpec == CallbackInit /\ [][CallbackNext]_vars

\* ------------------------------------------------------------------------
\* main() of interfaces/cli/main.py: one run of the command line, which
\* calls run_pipeline itself.
\* ------------------------------------------------------------------------
\* "if not api_key" on what os.getenv("LEMONFOX_API_KEY") gave.
CliKeyMissing(api_key) == api_key \in {None, ""}

\* unique_failed_urls = sorted(list(set(failed_urls))): each failed URL once.
UniqueFailedUrls(failed_urls) == Range(failed_urls)

\* sys.exit(1) "if failed_urls"; falling off the end of main() exits 0.
CliExitCodeManyFailed(failed_urls) == IF Len(failed_urls) > 1 THEN 1 ELSE 0

CliExitCode(failed_urls) == IF failed_urls # <<>> THEN 1 ELSE 0

CliInit ==
    /\ urls_to_process = <<>>
    /\ config = [formats |-> <<>>, keep_audio |-> FALSE]
    /\ pipeline_pc = "done"
    /\ audio_dir_foreign = FALSE
    /\ PipelineIdle
    /\ LeafIdle
    /\ JobIdle
    /\ CallbackIdle
    /\ cli_pc = "load_key"
    /\ cli_reason = None
    /\ exit_code = Unset
    /\ cli_summary = NoSummary

\* load_dotenv, os.getenv, and sys.exit(1) when there is no key.
CliLoadKey ==
    /\ cli_pc = "load_key"
    /\ \E api_key \in {None, "", "key"} :
        IF CliKeyMissing(api_key)
        THEN /\ cli_pc' = "exited"
             /\ cli_reason' = "no_key"
             /\ exit_code' = Stored(1)
        ELSE /\ cli_pc' = "parse_args"
             /\ UNCHANGED <<cli_reason, exit_code>>
    /\ UNCHANGED <<cli_summary, pipelineVars, jobVars, callbackVars, leafVars>>

\* parser.parse_args(): urls takes one or more values (argparse exits with
\* code 2 otherwise), --formats one or more of txt and srt, --keep-audio is
\* a flag; then pipeline_config is built from the arguments.
CliParseArgs ==
    /\ cli_pc = "parse_args"
    /\ \E urls \in SeqsUpTo(Urls, MaxUrls),
          formats \in SeqsUpTo({"txt", "srt"}, MaxFormats) \ {<<>>},
          keep_audio \in BOOLEAN :
        IF urls = <<>>
        THEN /\ cli_pc' = "exited"
             /\ cli_reason' = "usage"
             /\ exit_code' = Stored(2)
             /\ UNCHANGED <<urls_to_process, config>>
        ELSE /\ cli_pc' = "makedirs"
             /\ urls_to_process' = urls
             /\ config' = [formats |-> formats, keep_audio |-> keep_audio]
             /\ UNCHANGED <<cli_reason, exit_code>>
    /\ UNCHANGED <<index, pipeline_pc, audio_path, base_filename, fmt_index,
                   format_success_count, url_success, processed_urls_count,
                   failed_urls_list, audio_files, audio_dir_exists,
                   output_files, fetch_log, processed_at, failed_at, asset_at,
                   remove_failed, url_calls, transcript_result,
                   audio_dir_foreign, written_by, cleanup_calls, cli_summary,
                   jobVars, callbackVars, leafVars>>

\* The two os.makedirs: OSError exits with code 1, else run_pipeline is
\* called with the parsed URLs.
CliMakeDirs ==
    /\ cli_pc = "makedirs"
    /\ \E raised \in BOOLEAN :
        IF raised
        THEN /\ cli_pc' = "exited"
             /\ cli_reason' = "makedirs_raised"
             /\ exit_code' = Stored(1)
             /\ UNCHANGED pipeline_pc
        ELSE /\ cli_pc' = "run_pipeline"
             /\ pipeline_pc' = NextUrlStage(0, total_urls)
             /\ UNCHANGED <<cli_reason, exit_code>>
    /\ UNCHANGED <<urls_to_process, config, index, audio_path, base_filename,
                   fmt_index, format_success_count, url_success,
                   processed_urls_count, failed_urls_list, audio_files,
                   audio_dir_exists, output_files, fetch_log, processed_at,
                   failed_at, asset_at, remove_failed, url_calls,
                   transcript_result, audio_dir_foreign, written_by,
                   cleanup_calls, cli_summary, jobVars, callbackVars,
                   leafVars>>

\* run_pipeline(...) running inside main().
CliRunPipeline ==
    /\ cli_pc = "run_pipeline"
    /\ PipelineNext

\* The batch summary and the exit code, once run_pipeline has returned.
CliSummary ==
    /\ cli_pc = "run_pipeline"
    /\ pipeline_pc = "done"
    /\ cli_pc' = "exited"
    /\ cli_reason' = IF failed_urls_list # <<>> THEN "failed_urls" ELSE "finished"
    /\ exit_code' = Stored(CliExitCode(failed_urls_list))
    /\ cli_summary' = [total_attempted |-> Len(urls_to_process),
                       processed_count |-> processed_urls_count,
                       failed_urls |-> UniqueFailedUrls(failed_urls_list)]
    /\ UNCHANGED <<pipelineVars, jobVars, callbackVars, leafVars>>

CliNext ==
    \/ CliLoadKey
    \/ CliParseArgs
    \/ CliMakeDirs
    \/ CliRunPipeline
    \/ CliSummary

CliSpec == CliInit /\ [][CliNext]_vars

\* ========================================================================
\* The leaf collaborators, each called once on what its code distinguishes:
\* core/downloader.py, src/transcriber.py, src/formatter.py
\* ========================================================================
MaxSegments == 2

Returned(v) == [kind |-> "return", value |-> v]

\* The exception leaves the function.
Raised == [kind |-> "raise", value |-> None]

\* What download_audio_python_api meets: how ydl.download ends, whether the
\* progress hook captured a final filename and the file is there, how the
\* fallback's extract_info ends and which of the expected paths exist.
DownloadEnvs ==
    [download : {"ok", "error_code", "DownloadError", "Exception"},
     final_filename : {"unset", "missing", "exists"},
     extract_info : {"ok", "raise"},
     expected_exists : BOOLEAN,
     alt_exists : BOOLEAN,
     audio_format : {"mp3", "opus"}]

\* alt_formats = {'opus': 'webm', 'vorbis': 'ogg'}.
alt_formats == {"opus", "vorbis"}

\* The try of download_audio_python_api with its two except clauses.
download_audio_python_api(env) ==
    IF env.download \in {"DownloadError", "Exception"} THEN Returned(None)
    ELSE IF env.download = "error_code" THEN Returned(None)
    ELSE IF env.final_filename = "exists" THEN Returned("final_filename")
    ELSE IF env.extract_info = "raise" THEN Returned(None)
    ELSE IF env.expected_exists THEN Returned("expected_path")
    ELSE IF env.audio_format \in alt_formats /\ env.alt_exists
         THEN Returned("alt_path")
    ELSE Returned(None)

\* os.path.exists, at return time, of the path the fetcher returned.
PathExists(env, path) ==
    \/ path = "final_filename" /\ env.final_filename = "exists"
    \/ path = "expected_path" /\ env.expected_exists
    \/ path = "alt_path" /\ env.alt_exists

\* What transcribe_audio_lemonfox meets: the key, the audio file, the client
\* constructor, open() and what transcriptions.create returns or raises.
TranscribeEnvs ==
    [api_key : {"", "key"},
     audio_exists : BOOLEAN,
     client : {"ok", "raise"},
     open : {"ok", "FileNotFoundError"},
     create : {"model", "dict", "str", "other", "AuthenticationError",
               "RateLimitError", "APIConnectionError", "APIError",
               "Exception"}]

transcribe_audio_lemonfox(env) ==
    IF env.api_key = "" THEN Returned(None)
    ELSE IF ~env.audio_exists THEN Returned(None)
    ELSE IF env.client = "raise" THEN Returned(None)
    ELSE IF env.open = "FileNotFoundError" THEN Returned(None)
    ELSE IF env.create \in {"model", "dict", "str"} THEN Returned("dict")
    ELSE IF env.create = "other" THEN Returned("object")
    ELSE Returned(None)

\* What generate_txt meets: the shape of the transcript and how the write
\* ends. The whole body is inside one try.
TxtEnvs ==
    [transcript : {"not_a_dict", "no_text_no_segments", "text",
                   "segments_only", "text_not_a_string"},
     write : {"ok", "IOError", "Exception"}]

generate_txt(env) ==
    IF env.transcript \in {"not_a_dict", "text_not_a_string"} THEN Returned("False")
    ELSE IF env.transcript = "no_text_no_segments" THEN Returned("False")
    ELSE IF env.write = "ok" THEN Returned("True")
    ELSE Returned("False")

\* One segment of a transcript: start and end are None or a number, the
\* text key is absent, holds None, an empty string or a text.
Segments ==
    [start : {"None", "number"}, end : {"None", "number"},
     text : {"absent", "None", "empty", "text"}]

\* What generate_srt meets; <<>> stands for an empty list of segments and
\* for a missing one alike ("if not segments").
SrtEnvs ==
    [is_dict : BOOLEAN,
     segments : SeqsUpTo(Segments, MaxSegments),
     text_is_srt : BOOLEAN,
     write : {"ok", "IOError", "Exception"}]

\* "if start_time is None or end_time is None or not text: continue".
SegmentSkipped(seg) ==
    seg.start = "None" \/ seg.end = "None" \/ seg.text \in {"absent", "empty"}

\* Only the two writes of generate_srt are inside a try: transcript_result.get
\* (line 73) and the loop over the segments (98-118), where
\* segment.get('text', '').strip() is evaluated before the segment is tested,
\* are not.
generate_srt(env) ==
    IF ~env.is_dict THEN Raised
    ELSE IF env.segments = <<>>
         THEN IF env.text_is_srt /\ env.write = "ok" THEN Returned("True")
              ELSE Returned("False")
    ELSE IF \E k \in 1..Len(env.segments) : env.segments[k].text = "None"
         THEN Raised
    ELSE IF \A k \in 1..Len(env.segments) : SegmentSkipped(env.segments[k])
         THEN Returned("False")
    ELSE IF env.write = "ok" THEN Returned("True")
    ELSE Returned("False")

LeafCalls ==
    {[fn |-> "download_audio_python_api", env |-> env] : env \in DownloadEnvs}
    \cup {[fn |-> "transcribe_audio_lemonfox", env |-> env] : env \in TranscribeEnvs}
    \cup {[fn |-> "generate_txt", env |-> env] : env \in TxtEnvs}
    \cup {[fn |-> "generate_srt", env |-> env] : env \in SrtEnvs}

LeafInit ==
    /\ urls_to_process = <<>>
    /\ config = [formats |-> <<>>, keep_audio |-> FALSE]
    /\ pipeline_pc = "done"
    /\ audio_dir_foreign = FALSE
    /\ PipelineIdle
    /\ JobIdle
    /\ CallbackIdle
    /\ CliIdle
    /\ leaf_call \in LeafCalls
    /\ leaf_result = NotReturned

DownloadCall ==
    /\ leaf_call.fn = "download_audio_python_api"
    /\ leaf_result = NotReturned
    /\ leaf_result' = download_audio_python_api(leaf_call.env)
    /\ UNCHANGED <<leaf_call, pipelineVars, jobVars, callbackVars, cliVars>>

TranscribeCallReturn ==
    /\ leaf_call.fn = "transcribe_audio_lemonfox"
    /\ leaf_result = NotReturned
    /\ leaf_result' = transcribe_audio_lemonfox(leaf_call.env)
    /\ UNCHANGED <<leaf_call, pipelineVars, jobVars, callbackVars, cliVars>>

GenerateTxtCall ==
    /\ leaf_call.fn = "generate_txt"
    /\ leaf_result = NotReturned
    /\ leaf_result' = generate_txt(leaf_call.env)
    /\ UNCHANGED <<leaf_call, pipelineVars, jobVars, callbackVars, cliVars>>

GenerateSrtCall ==
    /\ leaf_call.fn = "generate_srt"
    /\ leaf_result = NotReturned
    /\ leaf_result' = generate_srt(leaf_call.env)
    /\ UNCHANGED <<leaf_call, pipelineVars, jobVars, callbackVars, cliVars>>

LeafNext ==
    \/ DownloadCall
    \/ TranscribeCallReturn
    \/ GenerateTxtCall
    \/ GenerateSrtCall

LeafSpec == LeafInit /\ [][LeafNext]_vars

\* ========================================================================
\* Properties
\* ========================================================================
IsDone(j) == worker_pc[j] = "done"

\* No cancel request on job j is being served.
NoCancelInProgress(j) == cancel_call.job # j

Positions == 1..Len(urls_to_process)

\* ------------------------------------------------------------------------
\* C1 (PipelineSpec). Every URL of the batch is handed to the fetcher exactly
\* once and in list order, whatever happened to the URLs before it (fetch
\* failure, transcription failure, no format written, unexpected exception),
\* and no exception leaves run_pipeline: the fetches made so far are always
\* the first URLs of the list, one per position reached, and at the end they
\* are the whole list.
C1_EveryUrlAttemptedInOrder ==
    /\ pipeline_pc # "aborted"
    /\ fetch_log = SubSeq(urls_to_process, 1,
                          IF pipeline_pc \in {"download", "done"} THEN index - 1 ELSE index)
    /\ pipeline_pc = "done" => fetch_log = urls_to_process

\* A finished batch of three URLs whose first URL failed, whose second was
\* processed and whose third failed.
C1_Witness ==
    /\ pipeline_pc = "done"
    /\ Len(urls_to_process) = 3
    /\ failed_at = {1, 3}
    /\ processed_at = {2}
    /\ fetch_log = urls_to_process

\* ------------------------------------------------------------------------
\* C4 as stated (PipelineSpec). After run_pipeline returns, every position
\* of the batch either incremented processed_count or has its URL in
\* failed_urls, never both and never neither; processed_count is at most the
\* batch length, and for pairwise distinct URLs processed_count +
\* |failed_urls| is the number of URLs.
C4_Original ==
    pipeline_pc = "done" =>
        /\ \A i \in Positions :
              (i \in processed_at) # (urls_to_process[i] \in Range(failed_urls_list))
        /\ processed_urls_count <= Len(urls_to_process)
        /\ (\A i, k \in Positions : i # k => urls_to_process[i] # urls_to_process[k])
              => processed_urls_count + Len(failed_urls_list) = Len(urls_to_process)

\* C4 as amended (PipelineSpec). After run_pipeline returns, every position
\* of the batch is accounted for in exactly one way by its own processing:
\* it incremented processed_count, or it recorded its URL as failed (the URL
\* is then in failed_urls), never both and never neither; failed_urls holds
\* nothing but URLs recorded that way; a URL is both counted as processed and
\* listed in failed_urls only if the batch lists it more than once and
\* another of its occurrences failed; processed_count is at most the batch
\* length, and for pairwise distinct URLs processed_count + |failed_urls| is
\* the number of URLs.
C4_EveryPositionAccountedOnce ==
    pipeline_pc = "done" =>
        /\ processed_at \cup failed_at = Positions
        /\ processed_at \cap failed_at = {}
        /\ processed_urls_count = Cardinality(processed_at)
        /\ \A i \in failed_at : urls_to_process[i] \in Range(failed_urls_list)
        /\ Range(failed_urls_list) = {urls_to_process[i] : i \in failed_at}
        /\ \A i \in processed_at :
              urls_to_process[i] \in Range(failed_urls_list)
                 => \E k \in failed_at : k # i /\ urls_to_process[k] = urls_to_process[i]
        /\ processed_urls_count <= Len(urls_to_process)
        /\ (\A i, k \in Positions : i # k => urls_to_process[i] # urls_to_process[k])
              => processed_urls_count + Len(failed_urls_list) = Len(urls_to_process)

\* A finished batch that lists one URL twice, processed at one position and
\* failed at the other, next to a URL listed once.
C4_Witness ==
    /\ pipeline_pc = "done"
    /\ Len(urls_to_process) = 3
    /\ \E i \in processed_at, k \in failed_at : urls_to_process[i] = urls_to_process[k]
    /\ processed_urls_count = 2
    /\ Len(failed_urls_list) = 1

\* ------------------------------------------------------------------------
\* C2 (Spec). If a cancel request on a job was accepted and one of the
\* worker's two checkpoints before the pipeline saw the flag set, then once
\* the worker and the cancel request have both finished the job's status is
\* cancelled and run_pipeline was never called for it.
C2_CancelObservedEndsCancelled ==
    \A j \in DOMAIN jobs :
        (observed_cancel[j] # None /\ IsDone(j) /\ NoCancelInProgress(j))
            => (jobs[j].status = STATUS_CANCELLED /\ ~PipelineCalled(j))

\* ------------------------------------------------------------------------
\* C3 (CallbackSpec). Once the status is completed, failed or cancelled, no
\* invocation of update_status, whatever status it asks for, changes it.
C3_TerminalStatusKept ==
    [][(jobs[TheJob].status \in TerminalStatuses /\ sink_calls' = sink_calls + 1)
          => jobs'[TheJob].status = jobs[TheJob].status]_vars

\* ------------------------------------------------------------------------
\* C5 (Spec). When the worker has run the pipeline on a batch with a URL
\* that fails and no cancellation was requested, the job ends failed and its
\* record holds the processed count and the failing URLs.
C5_FailuresRecorded ==
    \A j \in DOMAIN jobs :
        (/\ IsDone(j)
         /\ PipelineCalled(j)
         /\ ~jobs[j].cancelled
         /\ NoCancelInProgress(j)
         /\ Range(jobs[j].original_urls) \cap UnfetchableUrls # {})
            => /\ jobs[j].status = STATUS_FAILED
               /\ jobs[j].processed_count # Unset
               /\ jobs[j].failed_urls # Unset

\* ------------------------------------------------------------------------
\* C6 (Spec). A job with credentials, never asked to cancel, all of whose
\* URLs fetch, transcribe and format, ends completed with processed_count
\* equal to the number of its URLs.
C6_AllSucceedCompletes ==
    \A j \in DOMAIN jobs :
        (/\ IsDone(j)
         /\ PipelineCalled(j)
         /\ ~jobs[j].cancelled
         /\ NoCancelInProgress(j)
         /\ Range(jobs[j].original_urls) \cap UnfetchableUrls = {})
            => /\ jobs[j].status = STATUS_COMPLETED
               /\ jobs[j].processed_count = Stored(Len(jobs[j].original_urls))

\* ------------------------------------------------------------------------
\* C7 (Spec). Retry of a failed job stores exactly one new record, under an
\* id no record had, pending, not cancelled, with the failed job's original
\* URLs and configuration; it starts that job's worker, returns the new id,
\* and changes no existing record (the failed one included) and no worker.
C7_RetryCreatesCopy ==
    [][\A id \in DOMAIN jobs :
          (RetryJob(id) /\ jobs[id].status = STATUS_FAILED) =>
              LET new == response'.new_job_id IN
              /\ response'.result = "accepted"
              /\ new \notin DOMAIN jobs
              /\ DOMAIN jobs' = DOMAIN jobs \cup {new}
              /\ jobs'[new].status = STATUS_PENDING
              /\ jobs'[new].cancelled = FALSE
              /\ jobs'[new].original_urls = jobs[id].original_urls
              /\ jobs'[new].original_config = jobs[id].original_config
              /\ worker_pc'[new] = "check_start"
              /\ \A k \in DOMAIN jobs :
                    /\ jobs'[k] = jobs[k]
                    /\ worker_pc'[k] = worker_pc[k]]_vars

\* A retry was accepted for a failed job submitted with the second request
\* (two URLs, keep_audio), and its copy is stored.
C7_Witness ==
    /\ response.op = "retry"
    /\ response.result = "accepted"
    /\ jobs[response.job].status = STATUS_FAILED
    /\ Len(jobs[response.job].original_urls) = 2
    /\ jobs[response.new_job_id].original_urls = jobs[response.job].original_urls

\* ------------------------------------------------------------------------
\* C8 (Spec). Retry of a job whose status is not failed is rejected, and
\* retry of an unknown id answers not-found; neither stores a record, starts
\* a worker or changes anything else of the job layer.
C8_RetryRejected ==
    [][\A id \in DOMAIN jobs \cup {UnknownId} :
          (RetryJob(id) /\ (id \notin DOMAIN jobs \/ jobs[id].status # STATUS_FAILED)) =>
              /\ response'.result = IF id \in DOMAIN jobs THEN "only_failed" ELSE "not_found"
              /\ response'.new_job_id = UnknownId
              /\ jobs' = jobs
              /\ workerVars' = workerVars]_vars

\* A retry was rejected for a job that is cancelled.
C8_Witness ==
    /\ response.op = "retry"
    /\ response.result = "only_failed"
    /\ jobs[response.job].status = STATUS_CANCELLED

C10_CancelAgainIsNoOp ==
    [][\A id \in DOMAIN jobs :
          /\ (CancelRead(id) /\ jobs[id].status \in {STATUS_CANCELLING, STATUS_CANCELLED}) =>
                (response'.result = "already" /\ jobs' = jobs /\ cancel_call' = NoCancelCall)
          /\ (CancelRead(id) /\ jobs[id].cancelled) =>
                (jobs' = jobs /\ cancel_call' = NoCancelCall)]_vars

\* A second cancel request on a job whose first request was accepted was
\* answered "already", with the job still cancelling.
C10_Witness ==
    /\ response.op = "cancel"
    /\ response.result = "already"
    /\ jobs[response.job].cancelled
    /\ jobs[response.job].status = STATUS_CANCELLING

C14_PartialSuccessCounts ==
    [][(/\ pipeline_pc = "classify"
        /\ format_success_count > 0
        /\ format_success_count < total_formats) =>
            /\ url_success'
            /\ processed_urls_count' = processed_urls_count + 1
            /\ index \in processed_at'
            /\ index \notin failed_at'
            /\ failed_urls_list' = failed_urls_list]_vars

\* A URL was classified after one of its two requested formats was written,
\* and it is counted.
C14_Witness ==
    /\ pipeline_pc = "cleanup"
    /\ total_formats = 2
    /\ format_success_count = 1
    /\ url_success
    /\ index \in processed_at

\* ------------------------------------------------------------------------
\* C15 (PipelineSpec). A URL that reached formatting and for which no
\* formatter call succeeded (whatever the requested format list: empty or
\* made of unrecognised names included) is not counted as processed and is
\* in failed_urls.
C15_NoFormatMeansFailed ==
    (/\ pipeline_pc = "cleanup"
     /\ base_filename # None
     /\ format_success_count = 0) =>
        /\ ~url_success
        /\ index \notin processed_at
        /\ current_url \in Range(failed_urls_list)

\* ------------------------------------------------------------------------
\* C16 (PipelineSpec). The failed_urls that run_pipeline returns holds each
\* URL at most once, also for a batch that lists a URL several times.
C16_FailedUrlsDistinct ==
    pipeline_pc = "done" =>
        \A i, k \in 1..Len(failed_urls_list) :
            i # k => failed_urls_list[i] # failed_urls_list[k]

\* ------------------------------------------------------------------------
\* C11 (Spec). A result request returns the job's result data exactly when
\* the status it reads is completed, failed or cancelled; for every other
\* status it answers not-finished without result data, and for an unknown
\* id not-found.
C11_ResultExactlyWhenTerminal ==
    [][\A id \in DOMAIN jobs \cup {UnknownId} :
          ResultRead(id) =>
              IF id \notin DOMAIN jobs
              THEN response'.result = "not_found" /\ response'.data = NoData
              ELSE IF jobs[id].status \in TerminalStatuses
              THEN /\ cancel_call'.step = "result_build"
                   /\ cancel_call'.job = id
                   /\ response' = response
              ELSE /\ response'.result = "not_finished"
                   /\ response'.data = NoData
                   /\ cancel_call' = NoCancelCall]_vars

\* ------------------------------------------------------------------------
\* C12 (Spec). Every accepted submit and every accepted retry stores exactly
\* one new record, under an id no record and no worker had, pending and not
\* cancelled, and starts that id's worker at its first step; the response
\* carries the new id while the worker has not moved; no other record or
\* worker is touched, no step starts a second worker for an id, and there is
\* one worker per stored job.
C12_SubmitStoresOneFreshPendingJob ==
    [][/\ ((SubmitJob \/ \E id \in DOMAIN jobs : RetryJob(id))
              /\ response'.result = "accepted") =>
             LET new == response'.new_job_id IN
             /\ new \notin DOMAIN jobs
             /\ new \notin DOMAIN worker_pc
             /\ DOMAIN jobs' = DOMAIN jobs \cup {new}
             /\ DOMAIN worker_pc' = DOMAIN worker_pc \cup {new}
             /\ jobs'[new].status = STATUS_PENDING
             /\ jobs'[new].cancelled = FALSE
             /\ worker_pc'[new] = "check_start"
             /\ \A k \in DOMAIN jobs :
                   /\ jobs'[k] = jobs[k]
                   /\ worker_pc'[k] = worker_pc[k]
       /\ DOMAIN worker_pc' = DOMAIN jobs'
       /\ DOMAIN jobs \subseteq DOMAIN jobs'
       /\ \A k \in DOMAIN worker_pc :
             worker_pc'[k] = "check_start" => worker_pc[k] = "check_start"
       /\ DOMAIN jobs' # DOMAIN jobs =>
             /\ response'.op \in {"submit", "retry"}
             /\ response'.result = "accepted"
             /\ DOMAIN jobs' = DOMAIN jobs \cup {response'.new_job_id}]_vars

\* A second submit was accepted while the first job's worker had already
\* finished: two records, the new one pending with its worker at its first
\* step.
C12_Witness ==
    /\ response.op = "submit"
    /\ response.result = "accepted"
    /\ Cardinality(DOMAIN jobs) = 2
    /\ \E k \in DOMAIN jobs : k # response.new_job_id /\ IsDone(k)
    /\ jobs[response.new_job_id].status = STATUS_PENDING
    /\ worker_pc[response.new_job_id] = "check_start"

C18_OriginalRequestImmutable ==
    [][/\ \A k \in DOMAIN jobs :
             /\ k \in DOMAIN jobs'
             /\ jobs'[k].original_urls = jobs[k].original_urls
             /\ jobs'[k].original_config = jobs[k].original_config
       /\ \A k \in DOMAIN jobs' \ DOMAIN jobs :
             /\ \E req \in JobRequests :
                   /\ jobs'[k].original_urls = req.urls
                   /\ jobs'[k].original_config = req.config
             /\ response'.op = "retry" =>
                   /\ jobs'[k].original_urls = jobs[response'.job].original_urls
                   /\ jobs'[k].original_config = jobs[response'.job].original_config]_vars

\* A job submitted with the non-default configuration has failed, was
\* retried, and both records hold that request while the first job's worker
\* has finished.
C18_Witness ==
    /\ response.op = "retry"
    /\ response.result = "accepted"
    /\ IsDone(response.job)
    /\ jobs[response.job].original_config.keep_audio
    /\ jobs[response.new_job_id].original_config = jobs[response.job].original_config
    /\ jobs[response.new_job_id].original_urls = <<"u1", "u2">>

\* ------------------------------------------------------------------------
\* C19 (Spec). While the status of a job is completed, failed or cancelled,
\* no step of its worker writes error, processed_count, failed_urls or files
\* of the record.
C19_NoWorkerWriteAfterTerminal ==
    [][\A j \in DOMAIN jobs :
          (WorkerStep(j) /\ jobs[j].status \in TerminalStatuses) =>
              /\ jobs'[j].error = jobs[j].error
              /\ jobs'[j].processed_count = jobs[j].processed_count
              /\ jobs'[j].failed_urls = jobs[j].failed_urls
              /\ jobs'[j].files = jobs[j].files]_vars

\* ------------------------------------------------------------------------
\* C20 (Spec). Whenever a status or result request returned a terminal
\* status, the error (and, for a result request, the files, processed_count
\* and failed_urls) it returned with it are the values the record holds once
\* the worker has finished.
C20_ReadsAreOfFinalRecord ==
    (/\ response.op \in {"status", "result"}
     /\ response.result = "ok"
     /\ response.data.status \in TerminalStatuses
     /\ IsDone(response.job)) =>
        /\ response.data.error = jobs[response.job].error
        /\ response.op = "result" =>
              /\ response.data.files = jobs[response.job].files
              /\ response.data.processed_count = jobs[response.job].processed_count
              /\ response.data.failed_urls = jobs[response.job].failed_urls

\* ------------------------------------------------------------------------
\* C22 (CliSpec). A command-line run that got as far as run_pipeline exits
\* with code 1 exactly when failed_urls is not empty (also when some URLs
\* were processed) and with code 0 otherwise, so with 0 when every URL was
\* processed; its summary gives the number of URLs attempted, the processed
\* count and each failed URL once.
C22_ExitCodeTellsFailures ==
    (cli_pc = "exited" /\ cli_reason \notin {"no_key", "usage", "makedirs_raised"}) =>
        /\ pipeline_pc = "done"
        /\ exit_code = IF failed_urls_list # <<>> THEN Stored(1) ELSE Stored(0)
        /\ processed_at = Positions => exit_code = Stored(0)
        /\ failed_at # {} => exit_code = Stored(1)
        /\ cli_summary.total_attempted = Len(urls_to_process)
        /\ cli_summary.processed_count = Cardinality(processed_at)
        /\ cli_summary.failed_urls = {urls_to_process[i] : i \in failed_at}

\* A run of three URLs exited with code 1: one URL was processed, another
\* one failed twice and is reported once.
C22_Witness ==
    /\ cli_pc = "exited"
    /\ exit_code = Stored(1)
    /\ processed_urls_count = 1
    /\ Len(failed_urls_list) = 2
    /\ Cardinality(cli_summary.failed_urls) = 1
    /\ cli_summary.total_attempted = 3

\* ------------------------------------------------------------------------
\* C23 (PipelineSpec). When resolving the basename of a URL raised, the stem
\* is "transcript", every requested format is still attempted in order, and
\* the URL is classified from the formatter results alone: processed when a
\* format was written (or none was requested), failed otherwise.
C23_BasenameFallbackContinues ==
    (pipeline_pc = "cleanup" /\ <<"basename", "raise">> \in Range(url_calls)) =>
        LET IsFormat(c) == c[1] = "format"
            attempts == SelectSeq(url_calls, IsFormat)
        IN
        /\ base_filename = "transcript"
        /\ Len(attempts) = total_formats
        /\ \A i \in 1..total_formats : attempts[i][2] = requested_formats[i]
        /\ url_success = (format_success_count > 0 \/ total_formats = 0)
        /\ (index \in processed_at) = url_success
        /\ (index \in failed_at) = ~url_success

\* The basename of a URL could not be resolved, both requested formats were
\* attempted, one was written under the stem "transcript", and the URL is
\* counted.
C23_Witness ==
    /\ pipeline_pc = "cleanup"
    /\ <<"basename", "raise">> \in Range(url_calls)
    /\ total_formats = 2
    /\ format_success_count = 1
    /\ \E fmt \in FormatNames : <<"transcript", fmt>> \in output_files
    /\ index \in processed_at

\* ------------------------------------------------------------------------
\* C21 (Spec). A cancel request writes no field of a record but the
\* cancelled flag, and the status of a job changes only in a step of that
\* job's worker.
C21_CancelWritesOnlyFlag ==
    [][\A j \in DOMAIN jobs :
          /\ (CancelSetFlag \/ CancelSetStatus
                 \/ \E id \in DOMAIN jobs \cup {UnknownId} : CancelRead(id)) =>
                jobs'[j] = [jobs[j] EXCEPT !.cancelled = jobs'[j].cancelled]
          /\ jobs'[j].status # jobs[j].status => WorkerStep(j)]_vars

\* ------------------------------------------------------------------------
\* C24 (Spec). Absent cancellation, the first status a job shows after
\* pending, once its worker has called run_pipeline, is downloading: the
\* phase the Executor reports through the status sink for the first URL.
C24_PhasesReportedThroughSink ==
    [][\A j \in DOMAIN jobs :
          (/\ PipelineCalled(j)
           /\ ~jobs[j].cancelled
           /\ NoCancelInProgress(j)
           /\ jobs[j].status = STATUS_PENDING
           /\ jobs'[j].status # STATUS_PENDING) =>
              jobs'[j].status = STATUS_DOWNLOADING]_vars

\* ------------------------------------------------------------------------
\* C25 (Spec). Whatever the interleaving of worker steps and cancel
\* requests, a status that is completed, failed or cancelled never changes.
C25_TerminalStatusIsFinal ==
    [][\A j \in DOMAIN jobs :
          jobs[j].status \in TerminalStatuses =>
              jobs'[j].status = jobs[j].status]_vars

\* ------------------------------------------------------------------------
\* C26 (Spec). When the worker's status callback stores a status into a
\* record whose cancelled flag is set at that moment, the status it stores
\* is cancelled, also when a cancel request runs between the callback's
\* test of the flag and its write.
C26_FlagSetMeansCancelledStored ==
    [][\A j \in DOMAIN jobs :
          (/\ WorkerStep(j)
           /\ jobs[j].cancelled
           /\ jobs'[j].status # jobs[j].status) =>
              jobs'[j].status = STATUS_CANCELLED]_vars

\* ------------------------------------------------------------------------
\* C27 (FairSpec). Every submitted job eventually has a status among
\* completed, failed and cancelled and keeps a status among them for ever,
\* however many cancel requests arrive and whenever they arrive.
C27_EveryJobEndsTerminal ==
    \A j \in 1..MaxJobs :
        [](j \in DOMAIN jobs =>
              <>[](j \in DOMAIN jobs /\ jobs[j].status \in TerminalStatuses))

\* ------------------------------------------------------------------------
\* C28 (Spec). When the worker finds the cancelled flag set after
\* run_pipeline returned or raised (the status became cancelled), it writes
\* no error message.
C28_CancelledAfterPipelineWritesNoResult ==
    [][\A j \in DOMAIN jobs :
          (/\ WorkerStep(j)
           /\ PipelineCalled(j)
           /\ jobs[j].status = STATUS_CANCELLED) =>
              /\ jobs'[j].error = jobs[j].error
              /\ jobs'[j].processed_count = jobs[j].processed_count]_vars

\* ------------------------------------------------------------------------
\* C29 (Spec). When os.makedirs or run_pipeline raised, the worker goes on
\* in its except-branch to its normal end, and, if no cancellation was
\* requested, leaves the job failed with an error message that holds the
\* message of the exception that was raised.
C29_RaisedMeansFailedWithMessage ==
    \A j \in DOMAIN jobs :
        worker_reason[j] \in {"makedirs_raised", "pipeline_raised"} =>
            /\ worker_pc[j] \in {"status_check", "status_set_cancelled",
                                 "status_apply", "set_error", "done"}
            /\ (IsDone(j) /\ ~jobs[j].cancelled /\ NoCancelInProgress(j)) =>
                  /\ jobs[j].status = STATUS_FAILED
                  /\ jobs[j].error =
                        ERR_UNEXPECTED \o ": " \o ExceptionMessage(worker_reason[j])

\* One job failed because os.makedirs raised and another because the call
\* of run_pipeline raised; each record holds the message of its exception.
C29_Witness ==
    \E j, k \in DOMAIN jobs :
        /\ worker_reason[j] = "makedirs_raised"
        /\ worker_reason[k] = "pipeline_raised"
        /\ IsDone(j) /\ IsDone(k)
        /\ ~jobs[j].cancelled /\ ~jobs[k].cancelled
        /\ jobs[j].status = STATUS_FAILED
        /\ jobs[k].status = STATUS_FAILED
        /\ jobs[j].error # jobs[k].error

\* ------------------------------------------------------------------------
\* C30 (Spec). A job whose status is cancelling keeps it or becomes
\* cancelled: no step replaces cancelling with any other status.
C30_CancellingOnlyToCancelled ==
    [][\A j \in DOMAIN jobs :
          jobs[j].status = STATUS_CANCELLING =>
              jobs'[j].status \in {STATUS_CANCELLING, STATUS_CANCELLED}]_vars

\* ------------------------------------------------------------------------
\* The stages of one URL, as logged in url_calls
\* ------------------------------------------------------------------------
Stages == [k \in 1..Len(url_calls) |-> url_calls[k][1]]

\* The formats the format loop has attempted for the current URL, in order.
FormatAttempts ==
    LET F[k \in 0..Len(url_calls)] ==
          IF k = 0 THEN <<>>
          ELSE IF url_calls[k][1] = "format" THEN Append(F[k - 1], url_calls[k][2])
          ELSE F[k - 1]
    IN F[Len(url_calls)]

\* C31: for each URL the transcription client is called only after the
\* fetch of that URL returned an asset, and the basename resolution and the
\* formatters only after the transcription returned a result; after a fetch
\* failure nothing but the fetch was called, after a transcription failure
\* nothing but the fetch and the transcription, and every recorded failure
\* leaves the run in front of the cleanup of that URL.
C31_StagesInOrder ==
    /\ \A k \in 1..Len(url_calls) :
         /\ Stages[k] = "download" => k = 1
         /\ Stages[k] = "transcribe" =>
              k = 2 /\ audio_path # NoPath /\ index \in asset_at
         /\ Stages[k] = "basename" => k = 3 /\ transcript_result # None
         /\ Stages[k] = "format" => k > 3 /\ transcript_result # None
    /\ (pipeline_pc = "cleanup" /\ audio_path = NoPath) => Stages = <<"download">>
    /\ (pipeline_pc = "cleanup" /\ audio_path # NoPath /\ transcript_result = None)
         => Stages = <<"download", "transcribe">>
    /\ index \in failed_at => pipeline_pc = "cleanup"

\* A second URL whose fetch returned an asset and whose transcription
\* failed: the cleanup is what comes next.
C31_Witness ==
    /\ pipeline_pc = "cleanup"
    /\ index = 2
    /\ index \in asset_at
    /\ index \in failed_at
    /\ transcript_result = None
    /\ Stages = <<"download", "transcribe">>

\* The files position i of the batch wrote.
WrittenAt(i) == {w[2] : w \in {x \in written_by : x[1] = i}}

\* C34: within one URL every requested format is attempted, in the
\* requested order: while the format loop runs the attempts are the formats
\* before fmt_index, and once it is over they are the whole list, however
\* many formatters returned failure or raised; a failed format only leaves
\* its own file unwritten and does not raise the success count.
C34_EveryFormatAttempted ==
    /\ pipeline_pc = "format" =>
         FormatAttempts = SubSeq(requested_formats, 1, fmt_index - 1)
    /\ (pipeline_pc = "classify" \/ (pipeline_pc = "cleanup" /\ base_filename # None))
         => FormatAttempts = requested_formats
    /\ format_success_count <= Len(FormatAttempts)
    /\ base_filename # None =>
         /\ Cardinality(WrittenAt(index)) <= format_success_count
         /\ WrittenAt(index) \subseteq {<<base_filename, requested_formats[k]>> :
                                          k \in 1..Len(FormatAttempts)}

\* Two formats were requested for the first URL; the first formatter failed
\* and the second one wrote its file.
C34_Witness ==
    /\ pipeline_pc = "cleanup"
    /\ index = 1
    /\ requested_formats = <<"txt", "srt">>
    /\ FormatAttempts = <<"txt", "srt">>
    /\ WrittenAt(1) = {<<base_filename, "srt">>}
    /\ format_success_count = 1
    /\ index \in processed_at

\* C35: within one batch two different URLs that are both counted as
\* processed never wrote a transcript to the same output path (URLs whose
\* stem fell back to "transcript" included).
C35_NoSharedOutputPath ==
    \A i, j \in processed_at :
        urls_to_process[i] # urls_to_process[j] =>
            WrittenAt(i) \cap WrittenAt(j) = {}

\* The outcomes of the os.rmdir calls the last finally-block made.
RmdirCalls(calls) == {calls[k][2] : k \in {n \in 1..Len(calls) : calls[n][1] = "rmdir"}}

\* C36: the removal of the intermediate-audio directory is attempted only
\* after the asset of the current URL was deleted, and never when keep_audio
\* is set; a removal that fails leaves the directory in place and changes
\* nothing else: the counts and the failed list are what they were, and the
\* loop goes on to the next URL (or ends the run after the last one).
C36_RmdirOnlyAfterDeleteAndIgnored ==
    [][Cleanup =>
        /\ RmdirCalls(cleanup_calls') # {} =>
             /\ ~config.keep_audio
             /\ audio_path # NoPath
             /\ audio_path \in audio_files
             /\ audio_path \notin audio_files'
             /\ cleanup_calls'[1] = <<"remove", "removed">>
        /\ (RmdirCalls(cleanup_calls') \cap {"not_empty", "error"} # {}) =>
             audio_dir_exists' = audio_dir_exists
        /\ processed_urls_count' = processed_urls_count
        /\ processed_at' = processed_at
        /\ failed_urls_list' = failed_urls_list
        /\ failed_at' = failed_at
        /\ pipeline_pc' = NextUrlStage(index, total_urls)
        /\ index' = index + 1]_vars

\* The directory could not be removed after the first URL (it is not empty),
\* the URL stays counted as processed and the second URL is fetched next.
C36_Witness ==
    /\ cleanup_calls = <<<<"remove", "removed">>, <<"rmdir", "not_empty">>>>
    /\ pipeline_pc = "download"
    /\ index = 2
    /\ 1 \in processed_at
    /\ audio_dir_exists
    /\ ~config.keep_audio

\* The run is over and every URL of a non-empty batch was counted as
\* processed.
AllSucceeded ==
    /\ pipeline_pc = "done"
    /\ urls_to_process # <<>>
    /\ processed_at = Positions

\* The assets this batch fetched.
BatchAssets == {AudioAsset(urls_to_process[i]) : i \in asset_at}

C39_LeavesNeverRaise ==
    /\ leaf_result.kind # "raise"
    /\ leaf_result.kind = "return" =>
         /\ leaf_call.fn = "download_audio_python_api" =>
              leaf_result.value = None \/ PathExists(leaf_call.env, leaf_result.value)
         /\ leaf_call.fn = "transcribe_audio_lemonfox" =>
              leaf_result.value \in {None, "dict", "object"}
         /\ leaf_call.fn \in {"generate_txt", "generate_srt"} =>
              leaf_result.value \in {"True", "False"}

OperationOn(j) ==
    \/ WorkerStep(j)
    \/ CancelRead(j)
    \/ cancel_call.job = j /\ (CancelSetFlag \/ CancelSetStatus)

====
